---- MODULE Spec2Model ----
(***************************************************************************)
(* SpatialDE/svca.py: test_spatial_interactions (score test of every gene, *)
(* persisting the fitted kernel parameters in the AnnData) and             *)
(* fit_spatial_interactions (per-gene fit, ab initio or restricted to the  *)
(* persisted parameters).                                                  *)
(*                                                                         *)
(* Representation.  Lengths (l_min, l_max, length-scales, periods) are     *)
(* integers; l_min is even so that 0.5 * l_min is an integer.  p-values    *)
(* are integers in units of 1/PONE.  ncomponents is an integer in units of *)
(* 1/ONE_COMPONENT, so that the caller may pass 0.5.  Positions in         *)
(* var_names are 1-based (the code's i + 1).  A parameter value is a       *)
(* sequence: of length 1 for a scalar, of length X.shape[1] under ard.     *)
(* The "time" column of both result tables is wall-clock time and is left  *)
(* out.                                                                    *)
(***************************************************************************)
EXTENDS Integers, Sequences, FiniteSets, TLC

VARIABLES
  var_names,   \* adata.var_names: the gene names, unique, in any order
  l_limits,    \* get_l_limits(DistanceCache(adata.obsm[spatial_key])) = <<l_min, l_max>>
  adata,       \* the caller's AnnData: its varm/obsm/uns entries
  acopy,       \* the object adata.copy() made in test_spatial_interactions
  warnings,    \* the warnings emitted so far
  T,           \* the frame of the test_spatial_interactions call
  F            \* the frame of the fit_spatial_interactions call

vars == <<var_names, l_limits, adata, acopy, warnings, T, F>>

----------------------------------------------------------------------------
(* Bounds of the model *)

MaxGenes == 2          \* at most this many genes in adata.var_names
MaxNcomponents == 2    \* the caller passes ncomponents up to this
MaxFit == 2            \* distinct outcomes of one gene's numerical fit
PvalExcess == 1        \* how far above 1 a raw p-value may lie, in units of 1/PONE
NDims == 2             \* X.shape[1], the dimension of the coordinates

(* Scales *)
PONE == 2              \* the p-value 1
ONE_COMPONENT == 2     \* ncomponents = 1

Min(a, b) == IF a <= b THEN a ELSE b
Range(s) == {s[k] : k \in 1..Len(s)}
SetMin(S) == CHOOSE x \in S : \A y \in S : x <= y

RECURSIVE Pow(_, _)
Pow(b, e) == IF e = 0 THEN 1 ELSE b * Pow(b, e - 1)

\* the largest r with r^k <= x
IRoot(x, k) == CHOOSE r \in 0..x : Pow(r, k) <= x /\ Pow(r + 1, k) > x

----------------------------------------------------------------------------
(* AnnData entries *)

Keys == {"svca", "svca_sizefactors", "svca_ncomponents", "svca_ard"}

\* an AnnData with none of the four entries; the fields of an absent key are unused
NoEntries ==
  [keys |-> {}, svca |-> [names |-> <<>>, rows |-> <<>>],
   svca_sizefactors |-> "", svca_ncomponents |-> 0, svca_ard |-> FALSE]

----------------------------------------------------------------------------
(* Kernels *)

Fields == {"lengthscales", "periods", "variance"}
FieldRank(f) == CASE f = "lengthscales" -> 1 [] f = "periods" -> 2 [] f = "variance" -> 3

DefaultTransform == [kind |-> "default", low |-> 0, high |-> 0]
Sigmoid(low, high) == [kind |-> "Sigmoid", low |-> low, high |-> high]

\* [v] * X.shape[1] under ard, the scalar v otherwise
Shaped(v, ard) == IF ard THEN [d \in 1..NDims |-> v] ELSE <<v>>

\* Spectral(variance, lengthscales, periods): every parameter trainable, default transforms
Spectral(variance, lengthscales, periods) ==
  [variance |-> <<variance>>, lengthscales |-> lengthscales, periods |-> periods,
   trainable |-> Fields,
   transform |-> [lengthscales |-> DefaultTransform, periods |-> DefaultTransform]]

\* gpflow.set_trainable(k.<field>, flag)
set_trainable(k, field, flag) ==
  [k EXCEPT !.trainable = IF flag THEN @ \cup {field} ELSE @ \ {field}]

\* np.geomspace(l_min, l_max, n): n points, the end points exact, the inner
\* ones rounded down to the integer grid
geomspace(l_min, l_max, n) ==
  [i \in 1..n |->
     IF i = 1 THEN l_min
     ELSE IF i = n THEN l_max
     ELSE IRoot(Pow(l_min, n - i) * Pow(l_max, i - 1), n - 1)]

\* the paths of gpflow.utilities.parameter_dict of a mixture of n components
ParamNames(n) == [kernel : 1..n, field : Fields]

\* string order of the paths ".kernels[c].<field>"
NameLess(a, b) ==
  \/ a.kernel < b.kernel
  \/ a.kernel = b.kernel /\ FieldRank(a.field) < FieldRank(b.field)

\* gpflow.utilities.read_values(kernel): path -> constrained value
read_values(kernel) == [n \in ParamNames(Len(kernel)) |-> kernel[n.kernel][n.field]]

\* sorted(params.keys())
sorted(S) ==
  [k \in 1..Cardinality(S) |->
     CHOOSE n \in S : Cardinality({m \in S : NameLess(m, n)}) = k - 1]

\* tuple([params[k] for k in sortedkeys])
RowTupleReversed(params, sortedkeys) ==
  [k \in 1..Len(sortedkeys) |-> params[sortedkeys[Len(sortedkeys) + 1 - k]]]

RowTuple(params, sortedkeys) == [k \in 1..Len(sortedkeys) |-> params[sortedkeys[k]]]

\* {n: v for n, v in zip(param_names, row)}
ZipDict(param_names, row) ==
  [n \in Range(param_names) |->
     row[CHOOSE k \in 1..Len(param_names) : param_names[k] = n]]

\* the value multiple_assign leaves in one parameter of component c
Assigned(kernel, values, c, f) ==
  IF [kernel |-> c, field |-> f] \in DOMAIN values
  THEN values[[kernel |-> c, field |-> f]]
  ELSE kernel[c][f]

\* gpflow.utilities.multiple_assign(kernel, values)
multiple_assign(kernel, values) ==
  [c \in 1..Len(kernel) |->
     [kernel[c] EXCEPT !.lengthscales = Assigned(kernel, values, c, "lengthscales"),
                       !.periods = Assigned(kernel, values, c, "periods"),
                       !.variance = Assigned(kernel, values, c, "variance")]]

----------------------------------------------------------------------------
(* The numerical collaborators of SpatialDE._internal *)

\* a value the optimizer may leave in a parameter: inside the bounds of a
\* Sigmoid transform, positive under the default transform
Fitted(tr, j) ==
  IF tr.kind = "Sigmoid" THEN tr.low + (j % (tr.high - tr.low + 1)) ELSE 1 + j

\* one parameter after optimization: moved if trainable, kept otherwise
Optimized(k, f, j) ==
  IF f \in k.trainable THEN [d \in DOMAIN k[f] |-> Fitted(k.transform[f], j)] ELSE k[f]

\* SVCA.optimize(): the trainable kernel parameters are mutated in place to
\* the optimum found, outcome o of MaxFit
optimize(kernel, o) ==
  [c \in 1..Len(kernel) |->
     [kernel[c] EXCEPT !.lengthscales = Optimized(kernel[c], "lengthscales", o + c),
                       !.periods = Optimized(kernel[c], "periods", o + c + 1)]]

\* SVCA.fraction_variance(): the decomposition of the expression column
\* currentgene at the fitted state
fraction_variance(currentgene, o) == [column |-> currentgene, outcome |-> o]

\* util.bh_adjust(pvals): Benjamini-Hochberg, p[i] * n / rank made monotone
\* and capped at 1; the result is in units of 1 / (PONE * BHDen(n))
RECURSIVE BHDen(_)
BHDen(n) == IF n = 0 THEN 1 ELSE n * BHDen(n - 1)

BHRank(p, j) == Cardinality({l \in 1..Len(p) : p[l] <= p[j]})

bh_adjust(p) ==
  [i \in 1..Len(p) |->
     Min(PONE * BHDen(Len(p)),
         SetMin({p[j] * Len(p) * (BHDen(Len(p)) \div BHRank(p, j)) :
                   j \in {j \in 1..Len(p) : p[j] >= p[i]}}))]

----------------------------------------------------------------------------
(* test_spatial_interactions *)

\* lines 30-34: the condition, the warning and the replacement
TestNcomponentsLax(ncomponents) ==
  IF ncomponents < 0
  THEN [ncomponents |-> ONE_COMPONENT, warn |-> {"test: ncomponents must be 1 or larger"}]
  ELSE [ncomponents |-> ncomponents, warn |-> {}]

TestNcomponents(ncomponents) ==
  IF ncomponents < ONE_COMPONENT
  THEN [ncomponents |-> ONE_COMPONENT, warn |-> {"test: ncomponents must be 1 or larger"}]
  ELSE [ncomponents |-> ncomponents, warn |-> {}]

\* lines 36-37
TestSizefactors(sizefactors) == IF sizefactors = "None" THEN "calc_sizefactors" ELSE sizefactors

\* lines 41-58: one Spectral per point of the geometric grid
TestKernel(l_min, l_max, ncomponents, ard) ==
  LET n == ncomponents \div ONE_COMPONENT
      bounded == Sigmoid(l_min \div 2, 2 * l_max)
  IN [c \in 1..n |->
        [set_trainable(Spectral(1, Shaped(geomspace(l_min, l_max, n)[c], ard),
                                Shaped(l_max, ard)),
                       "variance", FALSE)
           EXCEPT !.transform = [lengthscales |-> bounded, periods |-> bounded]]]

\* lines 77-79: results.loc[results.pval > 1, "pval"] = 1
ClipNothing(pval) == pval

Clip(pval) == IF pval > PONE THEN PONE ELSE pval

\* line 80: what bh_adjust is given
BhArgumentRaw(results) == [k \in 1..Len(results) |-> results[k].pval]

BhArgument(results) == [k \in 1..Len(results) |-> Clip(results[k].pval)]

\* lines 87-90 on one AnnData
Persist(ad, parameters, sortedkeys, sizefactors, ncomponents, ard) ==
  [keys |-> ad.keys \cup Keys,
   svca |-> [names |-> sortedkeys, rows |-> parameters],
   svca_sizefactors |-> sizefactors,
   svca_ncomponents |-> ncomponents,
   svca_ard |-> ard]

\* lines 82-90: the object written to, and what the caller gets back
WriteThenCopy(copy, ad, written) ==
  [adata |-> written, acopy |-> IF copy THEN written ELSE NoEntries,
   toreturn |-> IF copy THEN "copy" ELSE "None"]

CopyThenWrite(copy, ad, written) ==
  IF copy
  THEN [adata |-> ad, acopy |-> written, toreturn |-> "copy"]
  ELSE [adata |-> written, acopy |-> NoEntries, toreturn |-> "None"]

IdleT ==
  [pc |-> "idle", args |-> <<>>, before |-> NoEntries, ncomponents |-> 0,
   sizefactors |-> "", kernel |-> <<>>, sortedkeys |-> <<>>, results |-> <<>>,
   parameters |-> <<>>, read |-> <<>>, bh_arg |-> <<>>, table |-> <<>>,
   toreturn |-> "unset", failed |-> <<>>]

\* lines 30-66: up to the loop
TestCall(ncomponents, ard, sizefactors, copy) ==
  /\ T.pc = "idle"
  /\ F.pc = "idle"
  /\ LET nc == TestNcomponents(ncomponents)
         kernel == TestKernel(l_limits[1], l_limits[2], nc.ncomponents, ard)
     IN /\ warnings' = warnings \cup nc.warn
        /\ T' = [IdleT EXCEPT
                   !.pc = "loop",
                   !.args = [ncomponents |-> ncomponents, ard |-> ard,
                             sizefactors |-> sizefactors, copy |-> copy],
                   !.before = adata,
                   !.ncomponents = nc.ncomponents,
                   !.sizefactors = TestSizefactors(sizefactors),
                   !.kernel = kernel,
                   !.sortedkeys = sorted(DOMAIN read_values(kernel))]
  /\ UNCHANGED <<var_names, l_limits, adata, acopy, F>>

\* lines 68-74: one gene; the score test fits the null model (outcome o) and
\* returns the survival function's value pval
TestGene(pval, o) ==
  /\ T.pc = "loop"
  /\ Len(T.results) < Len(var_names)
  /\ LET g == var_names[Len(T.results) + 1]
         kernel == optimize(T.kernel, o)
         params == read_values(kernel)
     IN T' = [T EXCEPT
                !.kernel = kernel,
                !.results = Append(@, [gene |-> g, pval |-> pval]),
                !.read = Append(@, params),
                !.parameters = Append(@, RowTuple(params, T.sortedkeys))]
  /\ UNCHANGED <<var_names, l_limits, adata, acopy, warnings, F>>

\* line 70 raising (NumericalInstability, OptimizationFailed): nothing catches
\* it, the call ends with the exception
TestRaise ==
  /\ T.pc = "loop"
  /\ Len(T.results) < Len(var_names)
  /\ T' = [T EXCEPT !.pc = "raised",
                    !.failed = Append(@, var_names[Len(T.results) + 1])]
  /\ UNCHANGED <<var_names, l_limits, adata, acopy, warnings, F>>

\* lines 76-92: the table, and the four entries
TestFinish ==
  /\ T.pc = "loop"
  /\ Len(T.results) = Len(var_names)
  /\ LET bh_arg == BhArgument(T.results)
         padj == bh_adjust(bh_arg)
         table == [k \in 1..Len(T.results) |->
                     [gene |-> T.results[k].gene, pval |-> Clip(T.results[k].pval),
                      padj |-> padj[k]]]
         written == Persist(adata, T.parameters, T.sortedkeys, T.sizefactors,
                            T.ncomponents, T.args.ard)
         out == CopyThenWrite(T.args.copy, adata, written)
     IN /\ T' = [T EXCEPT !.pc = "done", !.bh_arg = bh_arg, !.table = table,
                          !.toreturn = out.toreturn]
        /\ adata' = out.adata
        /\ acopy' = out.acopy
  /\ UNCHANGED <<var_names, l_limits, warnings, F>>

----------------------------------------------------------------------------
(* fit_spatial_interactions *)

\* lines 103-108: is any of the four entries missing?
AllButArdFound(ad) ==
  {"svca", "svca_sizefactors", "svca_ncomponents"} \subseteq ad.keys

ParametersFound(ad) ==
  /\ "svca" \in ad.keys
  /\ "svca_sizefactors" \in ad.keys
  /\ "svca_ncomponents" \in ad.keys
  /\ "svca_ard" \in ad.keys

\* lines 114-118: the condition, the warning and the replacement
FitNcomponents(ncomponents) ==
  IF ncomponents < ONE_COMPONENT
  THEN [ncomponents |-> ONE_COMPONENT, warn |-> {"fit: ncomponents must be 1 or larger"}]
  ELSE [ncomponents |-> ncomponents, warn |-> {}]

\* lines 103-127: the mode and the arguments in force
FitMode(ad, names, genes, ncomponents, ard, sizefactors) ==
  IF ~ParametersFound(ad)
  THEN LET nc == FitNcomponents(ncomponents)
       IN [warn |-> {"fit: SVCA parameters not found in adata"} \cup nc.warn,
           genes |-> IF genes.none THEN names ELSE genes.list,
           sizefactors |-> IF sizefactors = "None" THEN "calc_sizefactors" ELSE sizefactors,
           ncomponents |-> nc.ncomponents,
           ard |-> ard,
           trainable |-> TRUE]
  ELSE [warn |-> IF genes.none THEN {"fit: No genes given"} ELSE {},
        genes |-> IF genes.none THEN names ELSE genes.list,
        sizefactors |-> ad.svca_sizefactors,
        ncomponents |-> ad.svca_ncomponents,
        ard |-> ad.svca_ard,
        trainable |-> FALSE]

\* lines 131-140
FitKernel(ncomponents, ard, trainable) ==
  [i \in 1..(ncomponents \div ONE_COMPONENT) |->
     set_trainable(
       set_trainable(
         set_trainable(Spectral(1, Shaped(1, ard), Shaped(1, ard)), "variance", FALSE),
         "lengthscales", trainable),
       "periods", trainable)]

\* np.argsort(names): the positions in ascending order of the names
argsort(names) ==
  [k \in 1..Len(names) |->
     CHOOSE j \in 1..Len(names) :
       Cardinality({m \in 1..Len(names) : names[m] < names[j]}) = k - 1]

\* np.searchsorted(names, g, sorter=idx): the leftmost insertion point of g
\* in the sorted names, counted from 0
searchsorted(names, g) == Cardinality({m \in 1..Len(names) : names[m] < g})

\* lines 146-147
GeneIndexUnsorted(names, genes) ==
  [k \in 1..Len(genes) |-> searchsorted(names, genes[k]) + 1]

GeneIndex(names, genes) ==
  [k \in 1..Len(genes) |-> argsort(names)[searchsorted(names, genes[k]) + 1]]

IdleF ==
  [pc |-> "idle", args |-> <<>>, target |-> "adata", genes |-> <<>>,
   sizefactors |-> "", ncomponents |-> 0, ard |-> FALSE, trainable |-> FALSE,
   kernel |-> <<>>, idx |-> <<>>, param_names |-> <<>>, currentgene |-> 0,
   assigned |-> <<>>, start |-> <<>>, results |-> <<>>, table |-> <<>>,
   failed |-> <<>>]

\* the AnnData the fit is called on
Target(target) == IF target = "copy" THEN acopy ELSE adata

\* lines 103-150: up to the loop
FitCall(target, genes, ncomponents, ard, sizefactors) ==
  /\ F.pc = "idle"
  /\ T.pc \in {"idle", "done"}
  /\ target = "copy" => T.toreturn = "copy"
  /\ LET ad == Target(target)
         m == FitMode(ad, var_names, genes, ncomponents, ard, sizefactors)
     IN /\ warnings' = warnings \cup m.warn
        /\ F' = [IdleF EXCEPT
                   !.pc = "loop",
                   !.args = [genes |-> genes, ncomponents |-> ncomponents, ard |-> ard,
                             sizefactors |-> sizefactors],
                   !.target = target,
                   !.genes = m.genes,
                   !.sizefactors = m.sizefactors,
                   !.ncomponents = m.ncomponents,
                   !.ard = m.ard,
                   !.trainable = m.trainable,
                   !.kernel = FitKernel(m.ncomponents, m.ard, m.trainable),
                   !.idx = GeneIndex(var_names, m.genes),
                   !.param_names = IF m.trainable THEN <<>> ELSE ad.svca.names]
  /\ UNCHANGED <<var_names, l_limits, adata, acopy, T>>

\* lines 153-157: the kernel when model.optimize() is called for the gene at
\* position i, and the values assigned to it
Loaded(i) == ZipDict(F.param_names, Target(F.target).svca.rows[i])

BeforeOptimize(i) ==
  IF ~F.trainable THEN multiple_assign(F.kernel, Loaded(i)) ELSE F.kernel

\* lines 153-163: one gene, the optimizer ending with outcome o
FitGene(o) ==
  /\ F.pc = "loop"
  /\ Len(F.start) < Len(F.genes)
  /\ LET g == F.genes[Len(F.start) + 1]
         i == F.idx[Len(F.start) + 1]
     IN F' = [F EXCEPT
                !.currentgene = i,
                !.assigned = IF F.trainable THEN @ ELSE Append(@, Loaded(i)),
                !.start = Append(@, read_values(BeforeOptimize(i))),
                !.kernel = optimize(BeforeOptimize(i), o),
                !.results = Append(@, [gene |-> g, fracvars |-> fraction_variance(i, o)])]
  /\ UNCHANGED <<var_names, l_limits, adata, acopy, warnings, T>>

\* line 159 raising (NumericalInstability, OptimizationFailed): nothing
\* catches it, the call ends with the exception
FitRaise ==
  /\ F.pc = "loop"
  /\ Len(F.start) < Len(F.genes)
  /\ LET g == F.genes[Len(F.start) + 1]
         i == F.idx[Len(F.start) + 1]
     IN F' = [F EXCEPT
                !.pc = "raised",
                !.currentgene = i,
                !.assigned = IF F.trainable THEN @ ELSE Append(@, Loaded(i)),
                !.start = Append(@, read_values(BeforeOptimize(i))),
                !.kernel = BeforeOptimize(i),
                !.failed = Append(@, g)]
  /\ UNCHANGED <<var_names, l_limits, adata, acopy, warnings, T>>

\* line 164
FitReturn ==
  /\ F.pc = "loop"
  /\ Len(F.start) = Len(F.genes)
  /\ F' = [F EXCEPT !.pc = "done", !.table = F.results]
  /\ UNCHANGED <<var_names, l_limits, adata, acopy, warnings, T>>

----------------------------------------------------------------------------
(* Inputs *)

\* the sequences without repetition over the set S
RECURSIVE Injective(_, _)
Injective(S, n) ==
  IF n = 0 THEN {<<>>}
  ELSE {Append(s, x) : s \in Injective(S, n - 1), x \in S} \cap
       {s \in [1..n -> S] : \A a, b \in 1..n : s[a] = s[b] => a = b}

\* adata.var_names: G unique names in any order
VarNames == UNION {Injective(1..G, G) : G \in 1..MaxGenes}

\* the genes argument: None, or distinct names of var_names in any order
GenesInputs(names) ==
  {[none |-> TRUE, list |-> <<>>]} \cup
  {[none |-> FALSE, list |-> s] :
     s \in UNION {Injective(Range(names), n) : n \in 0..Len(names)}}

\* <<l_min, l_max>> of the coordinates
LLimits == {<<2, 8>>, <<4, 4>>}

\* ncomponents as the caller may pass it: below 1 (-1, 0, 0.5), or a
\* whole number of components
NcInputs ==
  {0 - ONE_COMPONENT, 0, ONE_COMPONENT \div 2} \cup
  {n * ONE_COMPONENT : n \in 1..MaxNcomponents}

\* ncomponents of 1 or more
WholeNcomponents == {n \in NcInputs : n >= ONE_COMPONENT}

SizefactorInputs == {"None", "given"}

\* the survival function's value
RawPvals == 0..(PONE + PvalExcess)

Outcomes == 1..MaxFit

\* an AnnData that holds the keys S of an earlier run (ncomponents=1, ard=False)
Prior(S, names, lims) ==
  LET kernel == TestKernel(lims[1], lims[2], ONE_COMPONENT, FALSE)
      sortedkeys == sorted(DOMAIN read_values(kernel))
      written == Persist(NoEntries, [i \in 1..Len(names) |->
                                       RowTuple(read_values(kernel), sortedkeys)],
                         sortedkeys, "earlier", ONE_COMPONENT, FALSE)
  IN [keys |-> S,
      svca |-> IF "svca" \in S THEN written.svca ELSE NoEntries.svca,
      svca_sizefactors |-> IF "svca_sizefactors" \in S THEN "earlier" ELSE "",
      svca_ncomponents |-> IF "svca_ncomponents" \in S THEN ONE_COMPONENT ELSE 0,
      svca_ard |-> FALSE]

----------------------------------------------------------------------------
(* Specifications.  Each draws the inputs its claims are about from their  *)
(* full sets and fixes the others, which keeps every state space small.    *)

InitWith(names, lims, priors) ==
  /\ var_names \in names
  /\ l_limits \in lims
  /\ adata \in {Prior(S, var_names, l_limits) : S \in priors}
  /\ acopy = NoEntries
  /\ warnings = {}
  /\ T = IdleT
  /\ F = IdleF

\* var_names in ascending order
SortedVarNames == {[i \in 1..G |-> i] : G \in 1..MaxGenes}

\* the defaults of the signatures (lines 25-28, 99-101)
DefaultNcomponents == {ONE_COMPONENT}
DefaultArd == {FALSE}
DefaultSizefactors == {"None"}

(* test_spatial_interactions alone, every survival-function value *)
InitTest == InitWith(VarNames, LLimits, {{}, Keys})

NextTest ==
  \/ \E ncomponents \in NcInputs, ard \in BOOLEAN,
        sizefactors \in SizefactorInputs, copy \in BOOLEAN :
       TestCall(ncomponents, ard, sizefactors, copy)
  \/ \E pval \in RawPvals : TestGene(pval, MaxFit)
  \/ TestRaise
  \/ TestFinish

SpecTest == InitTest /\ [][NextTest]_vars

(* fit_spatial_interactions alone, every order of var_names and of genes *)
InitFit == InitWith(VarNames, {<<4, 4>>}, {{}, Keys})

NextFit ==
  \/ \E genes \in GenesInputs(var_names), ncomponents \in NcInputs,
        ard \in BOOLEAN, sizefactors \in SizefactorInputs :
       FitCall("adata", genes, ncomponents, ard, sizefactors)
  \/ \E o \in Outcomes : FitGene(o)
  \/ FitRaise
  \/ FitReturn

SpecFit == InitFit /\ [][NextFit]_vars

(* the test, then the fit: every order of var_names and of genes, every   *)
(* outcome of the null fits; the fit called with its defaults             *)
InitRoundTrip == InitWith(VarNames, {<<2, 8>>}, {{}})

NextRoundTrip ==
  \/ \E ncomponents \in WholeNcomponents, ard \in BOOLEAN, copy \in BOOLEAN :
       TestCall(ncomponents, ard, "None", copy)
  \/ \E o \in Outcomes : TestGene(PONE, o)
  \/ TestRaise
  \/ TestFinish
  \/ \E target \in {"adata", "copy"}, genes \in GenesInputs(var_names),
        ncomponents \in DefaultNcomponents, ard \in DefaultArd,
        sizefactors \in DefaultSizefactors :
       FitCall(target, genes, ncomponents, ard, sizefactors)
  \/ FitGene(MaxFit)
  \/ FitRaise
  \/ FitReturn

SpecRoundTrip == InitRoundTrip /\ [][NextRoundTrip]_vars

(* the test, then the fit: every subset of the four entries in the caller's *)
(* AnnData and every argument of both calls; all genes fitted               *)
Init == InitWith(SortedVarNames, {<<4, 4>>}, SUBSET Keys)

Next ==
  \/ \E ncomponents \in NcInputs, ard \in BOOLEAN,
        sizefactors \in SizefactorInputs, copy \in BOOLEAN :
       TestCall(ncomponents, ard, sizefactors, copy)
  \/ TestGene(PONE, MaxFit)
  \/ TestRaise
  \/ TestFinish
  \/ \E target \in {"adata", "copy"}, ncomponents \in NcInputs,
        ard \in BOOLEAN, sizefactors \in SizefactorInputs :
       FitCall(target, [none |-> TRUE, list |-> <<>>], ncomponents, ard, sizefactors)
  \/ FitGene(MaxFit)
  \/ FitRaise
  \/ FitReturn

Spec == Init /\ [][Next]_vars

----------------------------------------------------------------------------
(* Claims *)

\* the object test_spatial_interactions wrote the four entries to
WrittenTarget == IF T.args.copy THEN "copy" ELSE "adata"

\* the position of gene g in var_names
PositionOf(g) == CHOOSE i \in 1..Len(var_names) : var_names[i] = g

NcWarningTest == "test: ncomponents must be 1 or larger"
NcWarningFit == "fit: ncomponents must be 1 or larger"
AbInitioWarning == "fit: SVCA parameters not found in adata"

\* C1 (as claimed): a gene whose score test or optimization raises does not
\* abort the batch: each call that has ended has returned a table, and the
\* table and the reported failures together cover every requested gene.
C1_BatchSurvivesFailure ==
  /\ T.pc \in {"done", "raised"} =>
       /\ T.pc = "done"
       /\ {T.table[k].gene : k \in 1..Len(T.table)} \cup Range(T.failed) = Range(var_names)
  /\ F.pc \in {"done", "raised"} =>
       /\ F.pc = "done"
       /\ {F.table[k].gene : k \in 1..Len(F.table)} \cup Range(F.failed) = Range(F.genes)

\* C2: every gene has a row in the table test_spatial_interactions returns,
\* and its p-value lies in [0, 1], also when the survival function returned
\* more than 1.
C2_PvalInUnitInterval ==
  T.pc = "done" =>
    /\ Len(T.table) = Len(var_names)
    /\ \A i \in 1..Len(var_names) :
         /\ T.table[i].gene = var_names[i]
         /\ 0 <= T.table[i].pval
         /\ T.table[i].pval <= PONE
         /\ T.table[i].pval = Min(T.results[i].pval, PONE)

C2_Witness ==
  /\ T.pc = "done"
  /\ \E i \in 1..Len(T.results) : T.results[i].pval > PONE

\* C3: bh_adjust is given the clipped pval column of the table: no value
\* above 1 reaches it, and padj is its result on that column.
C3_ClipBeforeAdjust ==
  T.pc = "done" =>
    /\ Len(T.bh_arg) = Len(T.table)
    /\ \A k \in 1..Len(T.table) :
         /\ T.bh_arg[k] = T.table[k].pval
         /\ T.bh_arg[k] <= PONE
         /\ T.table[k].padj = bh_adjust(T.bh_arg)[k]

C3_Witness ==
  /\ T.pc = "done"
  /\ Len(T.results) >= 2
  /\ T.results[1].pval > PONE
  /\ T.results[2].pval < PONE

\* what the test does with ncomponents
C4_Test ==
  /\ T.pc # "idle" =>
       IF T.args.ncomponents < ONE_COMPONENT
       THEN /\ NcWarningTest \in warnings
            /\ T.ncomponents = ONE_COMPONENT
            /\ Len(T.kernel) = 1
       ELSE /\ NcWarningTest \notin warnings
            /\ T.ncomponents = T.args.ncomponents
            /\ Len(T.kernel) * ONE_COMPONENT = T.args.ncomponents
  /\ T.pc = "done" =>
       /\ Target(WrittenTarget).svca_ncomponents = T.ncomponents
       /\ T.args.ncomponents < ONE_COMPONENT =>
            Target(WrittenTarget).svca_ncomponents = ONE_COMPONENT

\* what the fit does with ncomponents when it fits ab initio
C4_FitClamps ==
  IF F.args.ncomponents < ONE_COMPONENT
  THEN /\ NcWarningFit \in warnings
       /\ F.ncomponents = ONE_COMPONENT
       /\ Len(F.kernel) = 1
  ELSE /\ NcWarningFit \notin warnings
       /\ F.ncomponents = F.args.ncomponents
       /\ Len(F.kernel) * ONE_COMPONENT = F.args.ncomponents

\* C4 (as claimed): an ncomponents below 1 passed to either function is
\* warned about and replaced by 1, one component is built, and the test
\* persists 1; a value of 1 or more is kept without a warning.
C4_ClampEverywhere ==
  /\ C4_Test
  /\ F.pc # "idle" => C4_FitClamps

\* C4 (amended): as claimed for the test and for an ab initio fit; a
\* restricted refit ignores the caller's ncomponents, warns about none and
\* builds the persisted number of components.
C4_ClampUnlessRefit ==
  /\ C4_Test
  /\ F.pc # "idle" /\ F.trainable => C4_FitClamps
  /\ F.pc # "idle" /\ ~F.trainable =>
       /\ NcWarningFit \notin warnings
       /\ F.ncomponents = Target(F.target).svca_ncomponents
       /\ Len(F.kernel) * ONE_COMPONENT = Target(F.target).svca_ncomponents

C4_Witness ==
  /\ T.pc = "done"
  /\ T.args.ncomponents < ONE_COMPONENT
  /\ F.pc = "done"
  /\ ~F.trainable
  /\ F.args.ncomponents > ONE_COMPONENT
  /\ Len(F.kernel) = 1

\* C5: the test persists one row per gene, row i pairing each parameter name
\* with the value read after the score test of var_names[i]; a restricted
\* refit on that AnnData assigns to the kernel, for gene g, the named values
\* read after the score test of g.
C5_RoundTrip ==
  /\ T.pc = "done" =>
       LET svca == Target(WrittenTarget).svca
       IN /\ Len(svca.rows) = Len(var_names)
          /\ \A i \in 1..Len(var_names) : ZipDict(svca.names, svca.rows[i]) = T.read[i]
  /\ T.pc = "done" /\ F.pc # "idle" /\ F.target = WrittenTarget =>
       /\ ~F.trainable
       /\ \A k \in 1..Len(F.assigned) :
            /\ F.assigned[k] = T.read[PositionOf(F.genes[k])]
            /\ F.start[k] = T.read[PositionOf(F.genes[k])]

C5_Witness ==
  /\ T.pc = "done"
  /\ F.pc = "done"
  /\ F.target = WrittenTarget
  /\ Len(F.assigned) >= 2
  /\ F.genes[1] > F.genes[2]
  /\ var_names[1] > var_names[2]
  /\ F.assigned[1] # F.assigned[2]
  /\ Len(F.kernel) >= 2

\* C6 (as claimed): every gene's optimization starts from reset kernel
\* parameters: the initial values in an ab initio fit, the gene's persisted
\* record in a restricted refit.
C6_StartIndependentOfOrder ==
  F.pc # "idle" =>
    \A k \in 1..Len(F.start) :
      F.start[k] =
        IF F.trainable
        THEN read_values(FitKernel(F.ncomponents, F.ard, TRUE))
        ELSE ZipDict(F.param_names,
                     Target(F.target).svca.rows[PositionOf(F.genes[k])])

\* the bounded transform of the claim on every length-scale and period of a kernel
Bounded(kernel) ==
  \A c \in 1..Len(kernel) : \A f \in {"lengthscales", "periods"} :
    /\ kernel[c].transform[f] = Sigmoid(l_limits[1] \div 2, 2 * l_limits[2])
    /\ \A d \in DOMAIN kernel[c][f] :
         /\ l_limits[1] \div 2 <= kernel[c][f][d]
         /\ kernel[c][f][d] <= 2 * l_limits[2]

\* C7 (as claimed): the kernels of both functions carry the transform
\* bounded by 0.5 * l_min and 2 * l_max, and their values lie inside it.
C7_BoundedTransforms ==
  /\ T.pc # "idle" => Bounded(T.kernel)
  /\ F.pc # "idle" => Bounded(F.kernel)

\* C8: the position assigned to currentgene for gene g is g's position in
\* var_names; the table has one row per requested gene, in the order of
\* genes, each holding the fractions computed for that gene's column.
C8_GeneIndex ==
  /\ F.pc # "idle" =>
       /\ Len(F.idx) = Len(F.genes)
       /\ \A k \in 1..Len(F.genes) : var_names[F.idx[k]] = F.genes[k]
       /\ Len(F.start) > 0 => var_names[F.currentgene] = F.genes[Len(F.start)]
  /\ F.pc = "done" =>
       /\ Len(F.table) = Len(F.genes)
       /\ \A k \in 1..Len(F.genes) :
            /\ F.table[k].gene = F.genes[k]
            /\ var_names[F.table[k].fracvars.column] = F.genes[k]

C8_Witness ==
  /\ F.pc = "done"
  /\ Len(F.genes) >= 2
  /\ \E k \in 1..(Len(var_names) - 1) : var_names[k] > var_names[k + 1]
  /\ F.genes[1] # var_names[1]
  /\ ~F.args.genes.none

\* C9: the fit is a restricted refit exactly when all four entries are
\* present, and otherwise warns and fits ab initio with trainable
\* length-scales and periods; a restricted refit uses the persisted
\* sizefactors, ncomponents and ard and trains no length-scale or period;
\* the variance is never trainable; a fit on the AnnData the test wrote to
\* is a restricted refit.
C9_RefitIffAllPersisted ==
  F.pc # "idle" =>
    LET ad == Target(F.target)
    IN /\ ~F.trainable <=> Keys \subseteq ad.keys
       /\ F.trainable <=> AbInitioWarning \in warnings
       /\ \A c \in 1..Len(F.kernel) :
            /\ "variance" \notin F.kernel[c].trainable
            /\ IF F.trainable
               THEN {"lengthscales", "periods"} \subseteq F.kernel[c].trainable
               ELSE F.kernel[c].trainable = {}
       /\ ~F.trainable =>
            /\ F.sizefactors = ad.svca_sizefactors
            /\ F.ncomponents = ad.svca_ncomponents
            /\ F.ard = ad.svca_ard
            /\ Len(F.kernel) * ONE_COMPONENT = ad.svca_ncomponents
            /\ \A c \in 1..Len(F.kernel) :
                 Len(F.kernel[c].lengthscales) = IF ad.svca_ard THEN NDims ELSE 1
       /\ T.pc = "done" /\ F.target = WrittenTarget => ~F.trainable

C9_Witness ==
  /\ T.pc = "done"
  /\ F.pc = "done"
  /\ F.target = WrittenTarget
  /\ ~F.trainable
  /\ F.args.ard # F.ard
  /\ F.args.sizefactors = "given"
  /\ F.sizefactors = "calc_sizefactors"
  /\ F.args.ncomponents # F.ncomponents

\* C10: with copy=True the caller's AnnData stays as it was and the returned
\* copy carries the four entries; with copy=False None is returned and the
\* caller's AnnData carries them; until every gene has been tested, and
\* after a failure, nothing has been written.
C10_CopyLeavesCallerUnchanged ==
  /\ T.pc \in {"loop", "raised"} =>
       /\ adata = T.before
       /\ acopy = NoEntries
       /\ T.toreturn = "unset"
  /\ T.pc = "done" =>
       LET written == Target(WrittenTarget)
       IN /\ Keys \subseteq written.keys
          /\ written.svca.rows = T.parameters
          /\ Len(written.svca.rows) = Len(var_names)
          /\ written.svca_sizefactors = T.sizefactors
          /\ written.svca_ncomponents = T.ncomponents
          /\ written.svca_ard = T.args.ard
          /\ IF T.args.copy
             THEN adata = T.before /\ T.toreturn = "copy"
             ELSE acopy = NoEntries /\ T.toreturn = "None"

C10_Witness ==
  /\ T.pc = "done"
  /\ T.args.copy
  /\ T.before.keys = Keys
  /\ adata.svca_sizefactors = "earlier"
  /\ acopy.svca_sizefactors = "given"

====
